---- MODULE Spec2Model ----
(***************************************************************************)
(* Model of convert_txt_to_zwo.py: the conversion of free-text workout     *)
(* lines into ZWO markup elements (process_workout_line) and into the      *)
(* segment list of the PNG chart (parse_workout_segments,                  *)
(* generate_workout_png), the single-file driver (convert_txt_to_zwo) and  *)
(* the batch driver (process_queue).                                       *)
(*                                                                         *)
(* A line is a sequence of one-character strings; the regular expressions  *)
(* of REGEX_PATTERNS are evaluated on the characters.  A power fraction is *)
(* an exact number: a percentage p stands for p/100, a markup attribute    *)
(* for thousandths, a chart height for a fraction num/den of a percent.    *)
(* None is -1 wherever the code stores None next to non-negative integers. *)
(***************************************************************************)
EXTENDS Integers, Sequences, FiniteSets, TLC

None == -1

\* ------------------------------------------------------------------------
\* Characters and substrings
\* ------------------------------------------------------------------------
DigitChars == <<"0", "1", "2", "3", "4", "5", "6", "7", "8", "9">>

UpperChars == <<"A", "B", "C", "D", "E", "F", "G", "H", "I", "J", "K", "L", "M",
                "N", "O", "P", "Q", "R", "S", "T", "U", "V", "W", "X", "Y", "Z">>

LowerChars == <<"a", "b", "c", "d", "e", "f", "g", "h", "i", "j", "k", "l", "m",
                "n", "o", "p", "q", "r", "s", "t", "u", "v", "w", "x", "y", "z">>

IsDigit(c) == \E k \in 1..10 : DigitChars[k] = c

DigitVal(c) == (CHOOSE k \in 1..10 : DigitChars[k] = c) - 1

\* \s on a stripped single line: the blank.
IsSpace(c) == c = " "

\* str.lower() on one character.
LowerChar(c) ==
    IF \E k \in 1..26 : UpperChars[k] = c
    THEN LowerChars[CHOOSE k \in 1..26 : UpperChars[k] = c]
    ELSE c

\* str.lower()
lower(s) == [k \in 1..Len(s) |-> LowerChar(s[k])]

\* The literal lit stands in s at position p.
HasAt(s, p, lit) ==
    /\ p >= 1
    /\ p + Len(lit) - 1 <= Len(s)
    /\ \A k \in 1..Len(lit) : s[p + k - 1] = lit[k]

\* Python's  lit in s
Contains(s, lit) == \E p \in 1..Len(s) : HasAt(s, p, lit)

\* Last position of the greedy \d+ that starts at the digit s[p].
DigitsEnd(s, p) ==
    CHOOSE e \in p..Len(s) :
        /\ \A k \in p..e : IsDigit(s[k])
        /\ (e = Len(s) \/ ~IsDigit(s[e + 1]))

\* First position at or after p that holds no blank (Len(s)+1 if none): \s*
SpacesEnd(s, p) ==
    CHOOSE q \in p..(Len(s) + 1) :
        /\ \A k \in p..(q - 1) : IsSpace(s[k])
        /\ (q = Len(s) + 1 \/ ~IsSpace(s[q]))

\* int() of the digits s[a..b]
RECURSIVE ToInt(_, _, _)
ToInt(s, a, b) ==
    IF b < a THEN 0 ELSE 10 * ToInt(s, a, b - 1) + DigitVal(s[b])

Min(S) == CHOOSE x \in S : \A y \in S : x <= y

Max2(a, b) == IF a >= b THEN a ELSE b

\* ------------------------------------------------------------------------
\* REGEX_PATTERNS: pattern.search(s).  A match is [found, start, stop, g1]:
\* start..stop is group(0) and g1 is int(group(1)); the leftmost start wins.
\* ------------------------------------------------------------------------
NoMatch == [found |-> FALSE, start |-> 0, stop |-> 0, g1 |-> 0]

Match(a, b, v) == [found |-> TRUE, start |-> a, stop |-> b, g1 |-> v]

c_min == <<"m", "i", "n">>
c_sec == <<"s", "e", "c">>
c_FTP == <<"F", "T", "P">>
c_from == <<"f", "r", "o", "m">>
c_to == <<"t", "o">>
c_pct == <<"%">>
c_rpm == <<"r", "p", "m">>
c_x == <<"x">>
c_free_ride == <<"f", "r", "e", "e", " ", "r", "i", "d", "e">>

\* Starts of the matches of  (\d+)<lit>
DigitsThen(s, lit) ==
    {p \in 1..Len(s) : IsDigit(s[p]) /\ HasAt(s, DigitsEnd(s, p) + 1, lit)}

\* "digits": \d+
re_digits(s) ==
    LET P == {p \in 1..Len(s) : IsDigit(s[p])} IN
    IF P = {} THEN NoMatch
    ELSE LET p == Min(P) IN Match(p, DigitsEnd(s, p), ToInt(s, p, DigitsEnd(s, p)))

\* "duration": (\d+)(min|sec)
re_duration(s) ==
    LET P == DigitsThen(s, c_min) \cup DigitsThen(s, c_sec) IN
    IF P = {} THEN NoMatch
    ELSE LET p == Min(P)
             e == DigitsEnd(s, p)
         IN  Match(p, e + 3, ToInt(s, p, e))

\* "power_ftp": (\d+)%\s*FTP
re_power_ftp(s) ==
    LET P == {p \in DigitsThen(s, c_pct) :
                 HasAt(s, SpacesEnd(s, DigitsEnd(s, p) + 2), c_FTP)} IN
    IF P = {} THEN NoMatch
    ELSE LET p == Min(P)
             e == DigitsEnd(s, p)
         IN  Match(p, SpacesEnd(s, e + 2) + 2, ToInt(s, p, e))

\* Starts of the matches of  <word>\s+(\d+)
WordThenDigits(s, word) ==
    {p \in 1..Len(s) :
        /\ HasAt(s, p, word)
        /\ p + Len(word) <= Len(s)
        /\ IsSpace(s[p + Len(word)])
        /\ SpacesEnd(s, p + Len(word)) <= Len(s)
        /\ IsDigit(s[SpacesEnd(s, p + Len(word))])}

\* "from_power": from\s+(\d+)
re_from_power(s) ==
    LET P == WordThenDigits(s, c_from) IN
    IF P = {} THEN NoMatch
    ELSE LET p == Min(P)
             d == SpacesEnd(s, p + 4)
         IN  Match(p, DigitsEnd(s, d), ToInt(s, d, DigitsEnd(s, d)))

\* "to_power": to\s+(\d+)%
re_to_power(s) ==
    LET P == {p \in WordThenDigits(s, c_to) :
                 HasAt(s, DigitsEnd(s, SpacesEnd(s, p + 2)) + 1, c_pct)} IN
    IF P = {} THEN NoMatch
    ELSE LET p == Min(P)
             d == SpacesEnd(s, p + 2)
         IN  Match(p, DigitsEnd(s, d) + 1, ToInt(s, d, DigitsEnd(s, d)))

\* "percentage": (\d+)%
re_percentage(s) ==
    LET P == DigitsThen(s, c_pct) IN
    IF P = {} THEN NoMatch
    ELSE LET p == Min(P)
             e == DigitsEnd(s, p)
         IN  Match(p, e + 1, ToInt(s, p, e))

\* "rpm": (\d+)rpm
re_rpm(s) ==
    LET P == DigitsThen(s, c_rpm) IN
    IF P = {} THEN NoMatch
    ELSE LET p == Min(P)
             e == DigitsEnd(s, p)
         IN  Match(p, e + 3, ToInt(s, p, e))

\* "repeat": (\d+)x\s+
re_repeat(s) ==
    LET P == {p \in DigitsThen(s, c_x) :
                 /\ DigitsEnd(s, p) + 2 <= Len(s)
                 /\ IsSpace(s[DigitsEnd(s, p) + 2])} IN
    IF P = {} THEN NoMatch
    ELSE LET p == Min(P)
             e == DigitsEnd(s, p)
         IN  Match(p, SpacesEnd(s, e + 2) - 1, ToInt(s, p, e))

\* match.group(0)
group0(s, m) == SubSeq(s, m.start, m.stop)

\* ------------------------------------------------------------------------
\* Constants of the program (powers in percent of FTP)
\* ------------------------------------------------------------------------
DEFAULT_RECOVERY_POWER == 60
DEFAULT_INTERVAL_OFF_POWER == 55
RAMP_SEGMENT_DURATION == 15
FREE_RIDE_VISUALIZATION_POWER == 65
MINUTES_TO_SECONDS == 60

\* ------------------------------------------------------------------------
\* Token extractors
\* ------------------------------------------------------------------------
parse_duration_to_seconds(duration_str) ==
    IF Contains(duration_str, c_min)
    THEN LET match == re_digits(duration_str) IN
         IF match.found THEN match.g1 * MINUTES_TO_SECONDS ELSE 0
    ELSE IF Contains(duration_str, c_sec)
    THEN LET match == re_digits(duration_str) IN
         IF match.found THEN match.g1 ELSE 0
    ELSE 0

\* The result in percent: int(match.group(1)) / 100.0 is the fraction.
parse_power_percentage(power_str) ==
    LET match == re_percentage(power_str) IN
    IF match.found THEN match.g1 ELSE DEFAULT_RECOVERY_POWER

parse_cadence(line) ==
    LET match == re_rpm(line) IN
    IF match.found THEN match.g1 ELSE None

\* ------------------------------------------------------------------------
\* Input lines: stripped, non-empty lines of a workout file (line 261)
\* ------------------------------------------------------------------------
\* "10min from 50% to 80% FTP"
L_ramp_10min ==
    <<"1", "0", "m", "i", "n", " ", "f", "r", "o", "m", " ", "5", "0",
      "%", " ", "t", "o", " ", "8", "0", "%", " ", "F", "T", "P">>

\* "10min From 50% To 80% FTP"
L_ramp_caps ==
    <<"1", "0", "m", "i", "n", " ", "F", "r", "o", "m", " ", "5", "0",
      "%", " ", "T", "o", " ", "8", "0", "%", " ", "F", "T", "P">>

\* "20sec from 50% to 80% FTP"
L_ramp_20sec ==
    <<"2", "0", "s", "e", "c", " ", "f", "r", "o", "m", " ", "5", "0",
      "%", " ", "t", "o", " ", "8", "0", "%", " ", "F", "T", "P">>

\* "50sec @ 90rpm from 60% to 40% FTP"
L_ramp_50sec ==
    <<"5", "0", "s", "e", "c", " ", "@", " ", "9", "0", "r", "p", "m",
      " ", "f", "r", "o", "m", " ", "6", "0", "%", " ", "t", "o", " ",
      "4", "0", "%", " ", "F", "T", "P">>

\* "2min from 70% to 70% FTP"
L_ramp_flat ==
    <<"2", "m", "i", "n", " ", "f", "r", "o", "m", " ", "7", "0", "%",
      " ", "t", "o", " ", "7", "0", "%", " ", "F", "T", "P">>

\* "5min from easy to 80% FTP"
L_ramp_no_from_num ==
    <<"5", "m", "i", "n", " ", "f", "r", "o", "m", " ", "e", "a", "s",
      "y", " ", "t", "o", " ", "8", "0", "%", " ", "F", "T", "P">>

\* "5min from 50% to hard 80% FTP"
L_ramp_no_to_num ==
    <<"5", "m", "i", "n", " ", "f", "r", "o", "m", " ", "5", "0", "%",
      " ", "t", "o", " ", "h", "a", "r", "d", " ", "8", "0", "%", " ",
      "F", "T", "P">>

\* "4x 5min from easy to 80% FTP"
L_ramp_bad_repeat ==
    <<"4", "x", " ", "5", "m", "i", "n", " ", "f", "r", "o", "m", " ",
      "e", "a", "s", "y", " ", "t", "o", " ", "8", "0", "%", " ", "F",
      "T", "P">>

\* "4x 2min from 50% to 80% FTP"
L_ramp_repeat ==
    <<"4", "x", " ", "2", "m", "i", "n", " ", "f", "r", "o", "m", " ",
      "5", "0", "%", " ", "t", "o", " ", "8", "0", "%", " ", "F", "T",
      "P">>

\* "4x 30sec @ 105rpm, 85% FTP"
L_interval_cad ==
    <<"4", "x", " ", "3", "0", "s", "e", "c", " ", "@", " ", "1", "0",
      "5", "r", "p", "m", ",", " ", "8", "5", "%", " ", "F", "T", "P">>

\* "2x 1min 120% FTP"
L_interval_plain ==
    <<"2", "x", " ", "1", "m", "i", "n", " ", "1", "2", "0", "%", " ",
      "F", "T", "P">>

\* "4x 30sec @ 0rpm, 85% FTP"
L_interval_0rpm ==
    <<"4", "x", " ", "3", "0", "s", "e", "c", " ", "@", " ", "0", "r",
      "p", "m", ",", " ", "8", "5", "%", " ", "F", "T", "P">>

\* "0x 30sec 85% FTP"
L_interval_0x ==
    <<"0", "x", " ", "3", "0", "s", "e", "c", " ", "8", "5", "%", " ",
      "F", "T", "P">>

\* "3min @ 85% FTP"
L_steady_plain ==
    <<"3", "m", "i", "n", " ", "@", " ", "8", "5", "%", " ", "F", "T",
      "P">>

\* "5min @ 90rpm, 70% FTP"
L_steady_cad ==
    <<"5", "m", "i", "n", " ", "@", " ", "9", "0", "r", "p", "m", ",",
      " ", "7", "0", "%", " ", "F", "T", "P">>

\* "5min @ 85%"
L_steady_no_ftp ==
    <<"5", "m", "i", "n", " ", "@", " ", "8", "5", "%">>

\* "5min 90% max, 70% FTP"
L_steady_two_pct ==
    <<"5", "m", "i", "n", " ", "9", "0", "%", " ", "m", "a", "x", ",",
      " ", "7", "0", "%", " ", "F", "T", "P">>

\* "0min @ 50% FTP"
L_steady_0min ==
    <<"0", "m", "i", "n", " ", "@", " ", "5", "0", "%", " ", "F", "T",
      "P">>

\* "0sec free ride"
L_free_0sec ==
    <<"0", "s", "e", "c", " ", "f", "r", "e", "e", " ", "r", "i", "d",
      "e">>

\* "10min free ride"
L_free_10min ==
    <<"1", "0", "m", "i", "n", " ", "f", "r", "e", "e", " ", "r", "i",
      "d", "e">>

\* "5min Free Ride @ 85rpm, 70% FTP"
L_free_caps ==
    <<"5", "m", "i", "n", " ", "F", "r", "e", "e", " ", "R", "i", "d",
      "e", " ", "@", " ", "8", "5", "r", "p", "m", ",", " ", "7", "0",
      "%", " ", "F", "T", "P">>

\* "2x 3min free ride from 50% to 80% FTP"
L_free_ramp_repeat ==
    <<"2", "x", " ", "3", "m", "i", "n", " ", "f", "r", "e", "e", " ",
      "r", "i", "d", "e", " ", "f", "r", "o", "m", " ", "5", "0", "%",
      " ", "t", "o", " ", "8", "0", "%", " ", "F", "T", "P">>

\* "Warm up easy"
L_no_duration ==
    <<"W", "a", "r", "m", " ", "u", "p", " ", "e", "a", "s", "y">>

\* "5min easy"
L_no_power ==
    <<"5", "m", "i", "n", " ", "e", "a", "s", "y">>

LineSet ==
    {L_ramp_10min, L_ramp_caps, L_ramp_20sec, L_ramp_50sec, L_ramp_flat,
     L_ramp_no_from_num, L_ramp_no_to_num, L_ramp_bad_repeat,
     L_ramp_repeat, L_interval_cad, L_interval_plain, L_interval_0rpm,
     L_interval_0x, L_steady_plain, L_steady_cad, L_steady_no_ftp,
     L_steady_two_pct, L_steady_0min, L_free_0sec, L_free_10min,
     L_free_caps, L_free_ramp_repeat, L_no_duration, L_no_power}

\* ------------------------------------------------------------------------
\* process_workout_line: one line to its ZWO elements
\* ------------------------------------------------------------------------
\* An element is one markup tag; an attribute the tag does not carry is None.
\* Duration is OnDuration and Power is OnPower on IntervalsT.  Power and
\* OffPower are in thousandths.
Element(tag, repeat, duration, off_duration, power, off_power, cadence) ==
    [tag |-> tag, Repeat |-> repeat, Duration |-> duration,
     OffDuration |-> off_duration, Power |-> power, OffPower |-> off_power,
     Cadence |-> cadence]

\* cadence_attr (line 194): the attribute is written when cadence is truthy.
cadence_attr(cadence) == IF cadence # None /\ cadence # 0 THEN cadence ELSE None

\* f"{x:.3f}" of the fraction num/den of a thousandth, den > 0, num >= 0:
\* the nearest thousandth.  At an exact decimal tie the binary double
\* decides in the code; the tie goes to the even thousandth here.
format_3f(num, den) ==
    LET q == num \div den
        r == num % den
    IN  IF 2 * r < den THEN q
        ELSE IF 2 * r > den THEN q + 1
        ELSE IF q % 2 = 0 THEN q ELSE q + 1

\* f"{power}" of a percentage / 100.0: the shortest repr is the percentage
\* itself, in thousandths.
format_repr(percent) == 10 * percent

\* steps = max(1, duration // segment_duration)  (lines 216, 362)
ramp_steps(duration) == Max2(1, duration \div RAMP_SEGMENT_DURATION)

\* zwo_ramp_power dividing by steps instead of steps - 1.
zwo_ramp_power_by_steps(from_power, to_power, steps, i) ==
    IF steps = 1
    THEN [num |-> from_power + to_power, den |-> 2]
    ELSE [num |-> from_power * steps + (to_power - from_power) * i,
          den |-> steps]

\* Lines 223-226: the power of ramp step i as the fraction num/den percent.
zwo_ramp_power(from_power, to_power, steps, i) ==
    IF steps = 1
    THEN [num |-> from_power + to_power, den |-> 2]
    ELSE [num |-> from_power * (steps - 1) + (to_power - from_power) * i,
          den |-> steps - 1]

\* Lines 214-233: the SteadyState elements of a ramp.
zwo_ramp_elements(duration, from_power, to_power, cadence) ==
    LET steps == ramp_steps(duration)
        \* int(step_duration), step_duration = duration / steps
        step_duration == duration \div steps
    IN  [k \in 1..steps |->
            LET power == zwo_ramp_power(from_power, to_power, steps, k - 1) IN
            Element("SteadyState", None, step_duration, None,
                    format_3f(10 * power.num, power.den), None,
                    cadence_attr(cadence))]

\* The return value: <<>> is None, else the elements joined by newlines.
process_workout_line(line) ==
    LET duration_match == re_duration(line) IN
    IF ~duration_match.found THEN <<>>
    ELSE
    LET duration == parse_duration_to_seconds(group0(line, duration_match))
        cadence == parse_cadence(line)
        power_match == re_power_ftp(line)
        from_power_match == re_from_power(line)
        to_power_match == re_to_power(line)
        power == parse_power_percentage(line)
        repeat_match == re_repeat(line)
    IN  IF Contains(lower(line), c_free_ride)
        THEN <<Element("FreeRide", None, duration, None, None, None,
                       cadence_attr(cadence))>>
        ELSE IF ~power_match.found THEN <<>>
        ELSE IF /\ Contains(line, c_from) /\ Contains(line, c_to)
                /\ from_power_match.found /\ to_power_match.found
        THEN zwo_ramp_elements(duration, from_power_match.g1,
                               to_power_match.g1, cadence)
        ELSE IF repeat_match.found
        THEN <<Element("IntervalsT", repeat_match.g1, duration, duration,
                       format_repr(power),
                       format_repr(DEFAULT_INTERVAL_OFF_POWER),
                       cadence_attr(cadence))>>
        ELSE <<Element("SteadyState", None, duration, None,
                       format_repr(power), None, cadence_attr(cadence))>>

\* ------------------------------------------------------------------------
\* parse_workout_segments: lines to the segments of the chart
\* ------------------------------------------------------------------------
\* A segment dict; a key the dict does not have is None.  Powers in percent.
Segment(type, duration, power, power_low, power_high, cadence) ==
    [type |-> type, duration |-> duration, power |-> power,
     power_low |-> power_low, power_high |-> power_high, cadence |-> cadence]

\* Lines 480-496: repeat_count times an on and an off segment.
interval_segments(repeat_count, duration, power, cadence) ==
    [k \in 1..(2 * repeat_count) |->
        IF k % 2 = 1
        THEN Segment("interval_on", duration, power, None, None, cadence)
        ELSE Segment("interval_off", duration, DEFAULT_INTERVAL_OFF_POWER,
                     None, None, None)]

\* Lines 442-526: the segments one pass of the loop appends for a line.
line_segments(line) ==
    LET duration_match == re_duration(line) IN
    IF ~duration_match.found THEN <<>>
    ELSE
    LET duration == parse_duration_to_seconds(group0(line, duration_match))
        cadence == parse_cadence(line)
        power_match == re_power_ftp(line)
        power == parse_power_percentage(line)
        repeat_match == re_repeat(line)
        from_power_match == re_from_power(line)
        to_power_match == re_to_power(line)
    IN  IF Contains(lower(line), c_free_ride)
        THEN <<Segment("free_ride", duration, FREE_RIDE_VISUALIZATION_POWER,
                       None, None, cadence)>>
        ELSE IF ~power_match.found THEN <<>>
        ELSE IF repeat_match.found
        THEN interval_segments(repeat_match.g1, duration, power, cadence)
        ELSE IF Contains(line, c_from) /\ Contains(line, c_to)
        THEN IF from_power_match.found /\ to_power_match.found
             THEN <<Segment("ramp", duration, None, from_power_match.g1,
                            to_power_match.g1, cadence)>>
             ELSE <<>>
        ELSE <<Segment("steady", duration, power, None, None, cadence)>>

RECURSIVE parse_workout_segments(_)
parse_workout_segments(lines) ==
    IF lines = <<>> THEN <<>>
    ELSE parse_workout_segments(SubSeq(lines, 1, Len(lines) - 1))
            \o line_segments(lines[Len(lines)])

\* ------------------------------------------------------------------------
\* generate_workout_png: segments to the rectangles of the chart
\* ------------------------------------------------------------------------
\* POWER_ZONES in percent, in dict order.
POWER_ZONES ==
    <<[min_power |-> 0, max_power |-> 55, color |-> "#4A90E2"],
      [min_power |-> 55, max_power |-> 75, color |-> "#7ED321"],
      [min_power |-> 75, max_power |-> 90, color |-> "#F5A623"],
      [min_power |-> 90, max_power |-> 105, color |-> "#D0021B"],
      [min_power |-> 105, max_power |-> 120, color |-> "#9013FE"],
      [min_power |-> 120, max_power |-> 200, color |-> "#BD10E0"]>>

DEFAULT_HIGH_POWER_COLOR == "#50E3C2"

\* get_power_color with the ranges open below and closed above.
get_power_color_closed_above(num, den) ==
    LET hits == {z \in 1..Len(POWER_ZONES) :
                    /\ POWER_ZONES[z].min_power * den < num
                    /\ num <= POWER_ZONES[z].max_power * den}
    IN  IF hits = {} THEN DEFAULT_HIGH_POWER_COLOR
        ELSE POWER_ZONES[Min(hits)].color

\* get_power_color of the power num/den percent, den > 0.
get_power_color(num, den) ==
    LET hits == {z \in 1..Len(POWER_ZONES) :
                    /\ POWER_ZONES[z].min_power * den <= num
                    /\ num < POWER_ZONES[z].max_power * den}
    IN  IF hits = {} THEN DEFAULT_HIGH_POWER_COLOR
        ELSE POWER_ZONES[Min(hits)].color

\* segment.get("power_low", segment.get("power", DEFAULT_RECOVERY_POWER))
seg_power_low(segment) ==
    IF segment.power_low # None THEN segment.power_low
    ELSE IF segment.power # None THEN segment.power
    ELSE DEFAULT_RECOVERY_POWER

seg_power_high(segment) ==
    IF segment.power_high # None THEN segment.power_high
    ELSE IF segment.power # None THEN segment.power
    ELSE DEFAULT_RECOVERY_POWER

\* A patches.Rectangle((x, 0), width, height): x = x_num/den seconds,
\* width = w_num/den seconds, height = h_num/h_den percent.
Rect(x_num, w_num, den, h_num, h_den, facecolor) ==
    [x_num |-> x_num, w_num |-> w_num, den |-> den,
     h_num |-> h_num, h_den |-> h_den, facecolor |-> facecolor]

\* Line 368: the power of ramp step i as the fraction num/den percent;
\* den = 0 is the division by zero of i / (steps - 1).
png_ramp_power(power_low, power_high, steps, i) ==
    [num |-> power_low * (steps - 1) + (power_high - power_low) * i,
     den |-> steps - 1]

\* Lines 358-380 take the ramp branch.
png_is_ramp(segment) ==
    /\ segment.type # "free_ride"
    /\ seg_power_low(segment) # seg_power_high(segment)

\* Line 368 raises ZeroDivisionError in the first pass of the loop.
png_segment_raises(segment) ==
    png_is_ramp(segment) /\ ramp_steps(segment.duration) = 1

\* Lines 311-382: the rectangles added for one segment at current_time.
png_segment_rects(segment, current_time) ==
    LET duration == segment.duration
        power_low == seg_power_low(segment)
        power_high == seg_power_high(segment)
        steps == ramp_steps(duration)
    IN  IF segment.type = "free_ride"
        THEN <<Rect(current_time, duration, 1, power_low, 1, "lightgray")>>
        ELSE IF power_low = power_high
        THEN <<Rect(current_time, duration, 1, power_low, 1,
                    get_power_color(power_low, 1))>>
        ELSE [k \in 1..steps |->
                LET power == png_ramp_power(power_low, power_high, steps, k - 1)
                IN  Rect(current_time * steps + (k - 1) * duration, duration,
                         steps, power.num, power.den,
                         get_power_color(power.num, power.den))]

\* sum(segment["duration"] for segment in workout_data)
RECURSIVE total_duration(_)
total_duration(workout_data) ==
    IF workout_data = <<>> THEN 0
    ELSE total_duration(SubSeq(workout_data, 1, Len(workout_data) - 1))
            + workout_data[Len(workout_data)].duration

\* The rectangles of all segments, in order (drawn when nothing raises).
RECURSIVE png_rects(_)
png_rects(workout_data) ==
    IF workout_data = <<>> THEN <<>>
    ELSE LET n == Len(workout_data)
             head == SubSeq(workout_data, 1, n - 1)
         IN  png_rects(head)
                \o png_segment_rects(workout_data[n], total_duration(head))

\* generate_workout_png raises on its own data (savefig aside).
png_raises(workout_data) ==
    \E k \in 1..Len(workout_data) : png_segment_raises(workout_data[k])

\* ------------------------------------------------------------------------
\* Bounds and inputs
\* ------------------------------------------------------------------------
\* Most lines of the file given in single-file mode.
MaxLines == 2

\* Most files in ./queue in queue mode; a file is named by its number.
MaxFiles == 2

FileNames == 1..MaxFiles

\* Contents of the file of single-file mode.
FileContents == UNION {[1..n -> LineSet] : n \in 0..MaxLines}

\* Contents of the files of ./queue.
QueueContents ==
    {<<L_steady_plain>>, <<L_ramp_20sec>>, <<L_interval_cad, L_free_10min>>}

\* ------------------------------------------------------------------------
\* State
\* ------------------------------------------------------------------------
VARIABLES
    arg,          \* args.file: "none", or the state of the file it names
    files,        \* the text of every .txt file, by name
    queue_dir,    \* names of the .txt files in the input directory
    txt_dir,      \* names of the files moved to ./txt
    zwo_dir,      \* the .zwo file written for each name
    png_dir,      \* the .png file written for each name
    stdout,       \* the messages printed so far
    exit_code,    \* None while running, then the exit status
    pc,           \* position in main / process_queue / convert_txt_to_zwo
    txt_files,    \* process_queue: the files the loop has still to take
    txt_file,     \* the file being converted
    lines,        \* convert_txt_to_zwo: lines
    i,            \* lines the loop at 267 has processed
    element,      \* the last return value of process_workout_line
    zwo_content,  \* the elements appended after the header
    j,            \* lines the loop at 441 has processed
    segments,     \* parse_workout_segments: segments
    seg_mark,     \* len(segments) when the last pass of the loop at 441 began
    result        \* the value convert_txt_to_zwo returned

vars == <<arg, files, queue_dir, txt_dir, zwo_dir, png_dir, stdout, exit_code,
          pc, txt_files, txt_file, lines, i, element, zwo_content, j,
          segments, seg_mark, result>>

dirs == <<queue_dir, txt_dir, zwo_dir, png_dir>>

locals == <<lines, i, element, zwo_content, j, segments, seg_mark>>

NoFile == [written |-> FALSE, body |-> <<>>]

NoResult == [output_file |-> None, png_file |-> None]

Msg(text, file) == [text |-> text, file |-> file]

RECURSIVE Flatten(_)
\* "\n".join(zwo_content) between the header and the footer
Flatten(content) ==
    IF content = <<>> THEN <<>>
    ELSE Flatten(SubSeq(content, 1, Len(content) - 1)) \o content[Len(content)]

\* The orders in which glob may list the files of S.
Listings(S) ==
    {l \in [1..Cardinality(S) -> S] :
        \A a, b \in 1..Cardinality(S) : a # b => l[a] # l[b]}

InitCommon ==
    /\ txt_dir = {}
    /\ zwo_dir = [f \in FileNames |-> NoFile]
    /\ png_dir = [f \in FileNames |-> NoFile]
    /\ stdout = <<>>
    /\ exit_code = None
    /\ pc = "main"
    /\ txt_files = <<>>
    /\ txt_file = None
    /\ lines = <<>>
    /\ i = 0
    /\ element = <<>>
    /\ zwo_content = <<>>
    /\ j = 0
    /\ segments = <<>>
    /\ seg_mark = 0
    /\ result = NoResult

\* main with a file argument: file 1 is the argument.
InitSingle ==
    /\ arg \in {"missing", "wrong_ext", "txt"}
    /\ \E content \in FileContents :
          /\ arg # "txt" => content = <<>>
          /\ files = [f \in FileNames |-> IF f = 1 THEN content ELSE <<>>]
    /\ queue_dir = IF arg = "missing" THEN {} ELSE {1}
    /\ InitCommon

\* main without argument: any files in ./queue.
InitQueue ==
    /\ arg = "none"
    /\ \E present \in SUBSET FileNames :
          /\ queue_dir = present
          /\ \E contents \in [present -> QueueContents] :
                files = [f \in FileNames |->
                            IF f \in present THEN contents[f] ELSE <<>>]
    /\ InitCommon

Init == InitSingle \/ InitQueue

\* ------------------------------------------------------------------------
\* process_single_file
\* ------------------------------------------------------------------------
\* Lines 531-536 with validate_workout_file: a missing file or a wrong
\* extension exits with status 1.
SingleInvalid ==
    /\ pc = "main"
    /\ arg \in {"missing", "wrong_ext"}
    /\ stdout' = Append(stdout, Msg("Error", 1))
    /\ exit_code' = 1
    /\ pc' = "exit"
    /\ UNCHANGED <<arg, files, dirs, txt_files, txt_file, locals, result>>

\* Lines 538-549: the call of convert_txt_to_zwo.
SingleStart ==
    /\ pc = "main"
    /\ arg = "txt"
    /\ stdout' = Append(stdout, Msg("Processing", 1))
    /\ txt_file' = 1
    /\ pc' = "open"
    /\ UNCHANGED <<arg, files, dirs, exit_code, txt_files, locals, result>>

\* Lines 550-552.
SingleReturned ==
    /\ pc = "returned"
    /\ arg = "txt"
    /\ stdout' = stdout \o <<Msg("Created", result.output_file)>>
                    \o (IF result.png_file # None
                        THEN <<Msg("Generated", result.png_file)>> ELSE <<>>)
    /\ exit_code' = 0
    /\ pc' = "exit"
    /\ UNCHANGED <<arg, files, dirs, txt_files, txt_file, locals, result>>

\* Lines 553-555.
SingleFailed ==
    /\ pc = "raised"
    /\ arg = "txt"
    /\ stdout' = Append(stdout, Msg("Error", txt_file))
    /\ exit_code' = 1
    /\ pc' = "exit"
    /\ UNCHANGED <<arg, files, dirs, txt_files, txt_file, locals, result>>

\* ------------------------------------------------------------------------
\* convert_txt_to_zwo(txt_file, output_dir, True)
\* ------------------------------------------------------------------------
\* Lines 260-264: read the lines; open or decoding may raise.
ConvertOpen ==
    /\ pc = "open"
    /\ \/ /\ lines' = files[txt_file]
          /\ pc' = "serialize"
       \/ /\ lines' = <<>>
          /\ pc' = "raised"
    /\ i' = 0
    /\ element' = <<>>
    /\ zwo_content' = <<>>
    /\ j' = 0
    /\ segments' = <<>>
    /\ seg_mark' = 0
    /\ result' = NoResult
    /\ UNCHANGED <<arg, files, dirs, stdout, exit_code, txt_files, txt_file>>

\* Lines 267-270: one pass of the loop over the lines.
ConvertProcessLine ==
    /\ pc = "serialize"
    /\ i < Len(lines)
    /\ i' = i + 1
    /\ element' = process_workout_line(lines[i + 1])
    /\ zwo_content' = IF element' # <<>> THEN Append(zwo_content, element')
                                         ELSE zwo_content
    /\ UNCHANGED <<arg, files, dirs, stdout, exit_code, pc, txt_files,
                   txt_file, lines, j, segments, seg_mark, result>>

\* Lines 272-281: write the ZWO file; open or write may raise.
ConvertWrite ==
    /\ pc = "serialize"
    /\ i = Len(lines)
    /\ \/ /\ zwo_dir' = [zwo_dir EXCEPT
                            ![txt_file] = [written |-> TRUE,
                                           body |-> Flatten(zwo_content)]]
          /\ pc' = "parse"
       \/ /\ zwo_dir' = zwo_dir
          /\ pc' = "raised"
    /\ UNCHANGED <<arg, files, queue_dir, txt_dir, png_dir, stdout, exit_code,
                   txt_files, txt_file, locals, result>>

\* Line 283, lines 441-526: one pass of the loop of parse_workout_segments.
ConvertParseLine ==
    /\ pc = "parse"
    /\ j < Len(lines)
    /\ j' = j + 1
    /\ seg_mark' = Len(segments)
    /\ segments' = segments \o line_segments(lines[j + 1])
    /\ UNCHANGED <<arg, files, dirs, stdout, exit_code, pc, txt_files,
                   txt_file, lines, i, element, zwo_content, result>>

\* Lines 284, 288: generate_workout_png saves the chart and both paths are
\* returned.
ConvertRenderOk ==
    /\ pc = "parse"
    /\ j = Len(lines)
    /\ ~png_raises(segments)
    /\ png_dir' = [png_dir EXCEPT
                      ![txt_file] = [written |-> TRUE,
                                     body |-> png_rects(segments)]]
    /\ result' = [output_file |-> txt_file, png_file |-> txt_file]
    /\ pc' = "returned"
    /\ UNCHANGED <<arg, files, queue_dir, txt_dir, zwo_dir, stdout, exit_code,
                   txt_files, txt_file, locals>>

\* ConvertRenderFails without the try of line 282: the exception leaves
\* convert_txt_to_zwo.
ConvertRenderFails_uncaught ==
    /\ pc = "parse"
    /\ j = Len(lines)
    /\ \E library_fails \in BOOLEAN : png_raises(segments) \/ library_fails
    /\ pc' = "raised"
    /\ UNCHANGED <<arg, files, dirs, stdout, exit_code, txt_files, txt_file,
                   locals, result>>

\* Lines 284-288: generate_workout_png raises, by its own division or in
\* the plotting library; the exception is caught and a warning printed.
ConvertRenderFails ==
    /\ pc = "parse"
    /\ j = Len(lines)
    /\ \E library_fails \in BOOLEAN : png_raises(segments) \/ library_fails
    /\ stdout' = Append(stdout, Msg("Warning", txt_file))
    /\ result' = [output_file |-> txt_file, png_file |-> None]
    /\ pc' = "returned"
    /\ UNCHANGED <<arg, files, dirs, exit_code, txt_files, txt_file, locals>>

\* ------------------------------------------------------------------------
\* process_queue
\* ------------------------------------------------------------------------
\* Lines 558-571: list the queue; nothing to do when it is empty.
QueueStart ==
    /\ pc = "main"
    /\ arg = "none"
    /\ \E listing \in Listings(queue_dir) : txt_files' = listing
    /\ IF queue_dir = {}
       THEN /\ stdout' = Append(stdout, Msg("No txt files", None))
            /\ exit_code' = 0
            /\ pc' = "exit"
       ELSE /\ stdout' = stdout
            /\ exit_code' = exit_code
            /\ pc' = "queue"
    /\ UNCHANGED <<arg, files, dirs, txt_file, locals, result>>

\* Lines 573-577: take the next file and call convert_txt_to_zwo.
QueueNext ==
    /\ pc = "queue"
    /\ txt_files # <<>>
    /\ txt_file' = Head(txt_files)
    /\ txt_files' = Tail(txt_files)
    /\ stdout' = Append(stdout, Msg("Processing", Head(txt_files)))
    /\ pc' = "open"
    /\ UNCHANGED <<arg, files, dirs, exit_code, locals, result>>

\* Lines 578-584 (and 586-587 when rename raises): report and move the file.
QueueReturned ==
    /\ pc = "returned"
    /\ arg = "none"
    /\ LET reported ==
              stdout \o <<Msg("Created", result.output_file)>>
                \o (IF result.png_file # None
                    THEN <<Msg("Generated", result.png_file)>> ELSE <<>>)
       IN  \/ /\ queue_dir' = queue_dir \ {txt_file}
              /\ txt_dir' = txt_dir \cup {txt_file}
              /\ stdout' = Append(reported, Msg("Moved to", txt_file))
           \/ /\ queue_dir' = queue_dir
              /\ txt_dir' = txt_dir
              /\ stdout' = Append(reported, Msg("Error", txt_file))
    /\ pc' = "queue"
    /\ UNCHANGED <<arg, files, zwo_dir, png_dir, exit_code, txt_files,
                   txt_file, locals, result>>

\* QueueFailed without the try of line 576: the exception ends the loop.
QueueFailed_abort ==
    /\ pc = "raised"
    /\ arg = "none"
    /\ stdout' = Append(stdout, Msg("Error", txt_file))
    /\ exit_code' = 1
    /\ pc' = "exit"
    /\ UNCHANGED <<arg, files, dirs, txt_files, txt_file, locals, result>>

\* Lines 586-587: convert_txt_to_zwo raised; log and go on.
QueueFailed ==
    /\ pc = "raised"
    /\ arg = "none"
    /\ stdout' = Append(stdout, Msg("Error", txt_file))
    /\ pc' = "queue"
    /\ UNCHANGED <<arg, files, dirs, exit_code, txt_files, txt_file, locals,
                   result>>

\* The loop at line 573 is exhausted; main returns.
QueueDone ==
    /\ pc = "queue"
    /\ txt_files = <<>>
    /\ exit_code' = 0
    /\ pc' = "exit"
    /\ UNCHANGED <<arg, files, dirs, stdout, txt_files, txt_file, locals,
                   result>>

Next ==
    \/ SingleInvalid
    \/ SingleStart
    \/ SingleReturned
    \/ SingleFailed
    \/ ConvertOpen
    \/ ConvertProcessLine
    \/ ConvertWrite
    \/ ConvertParseLine
    \/ ConvertRenderOk
    \/ ConvertRenderFails
    \/ QueueStart
    \/ QueueNext
    \/ QueueReturned
    \/ QueueFailed
    \/ QueueDone

Spec == Init /\ [][Next]_vars

\* ------------------------------------------------------------------------
\* Vocabulary of the properties
\* ------------------------------------------------------------------------
\* The segments the last pass of the loop of parse_workout_segments appended.
LastSegments == SubSeq(segments, seg_mark + 1, Len(segments))

\* The line process_workout_line was last called on (when i > 0) and the
\* line parse_workout_segments last looked at (when j > 0).
SerializedLine == lines[i]

ParsedLine == lines[j]

HasDuration(line) == re_duration(line).found

DurationOf(line) == parse_duration_to_seconds(group0(line, re_duration(line)))

HasFreeRide(line) == Contains(lower(line), c_free_ride)

HasFromTo(line) == Contains(line, c_from) /\ Contains(line, c_to)

HasRepeat(line) == re_repeat(line).found

\* A ramp line with both numerals.
WellFormedRamp(line) ==
    /\ HasDuration(line)
    /\ ~HasFreeRide(line)
    /\ re_power_ftp(line).found
    /\ HasFromTo(line)
    /\ re_from_power(line).found
    /\ re_to_power(line).found

\* A ramp line with a numeral missing.
MalformedRamp(line) ==
    /\ HasDuration(line)
    /\ ~HasFreeRide(line)
    /\ re_power_ftp(line).found
    /\ HasFromTo(line)
    /\ ~(re_from_power(line).found /\ re_to_power(line).found)

\* C1: every segment of the canonical sequence has duration > 0; a line
\* whose duration token evaluates to 0 is dropped.
C1_PositiveDurations ==
    \A k \in 1..Len(segments) : segments[k].duration > 0

\* C2: a malformed ramp line produces no output: process_workout_line
\* returns no element for it and parse_workout_segments appends no segment
\* for it, with or without a repeat pattern.
C2_MalformedRampSilent ==
    /\ (i > 0 /\ MalformedRamp(SerializedLine)) => element = <<>>
    /\ (j > 0 /\ MalformedRamp(ParsedLine)) => LastSegments = <<>>

\* The decision order of the classifier, first match wins.
DecisionOrder(line) ==
    IF ~HasDuration(line) THEN "none"
    ELSE IF HasFreeRide(line) THEN "free_ride"
    ELSE IF ~re_power_ftp(line).found THEN "none"
    ELSE IF HasFromTo(line)
    THEN IF re_from_power(line).found /\ re_to_power(line).found
         THEN "ramp" ELSE "none"
    ELSE IF HasRepeat(line) THEN "interval"
    ELSE "steady"

\* The element returned has the shape of the class.
ElementsOfClass(class, line, e) ==
    CASE class = "none" -> e = <<>>
      [] class = "free_ride" -> Len(e) = 1 /\ e[1].tag = "FreeRide"
      [] class = "ramp" ->
            /\ Len(e) = Max2(1, DurationOf(line) \div 15)
            /\ \A k \in 1..Len(e) : e[k].tag = "SteadyState"
      [] class = "interval" -> Len(e) = 1 /\ e[1].tag = "IntervalsT"
      [] class = "steady" -> Len(e) = 1 /\ e[1].tag = "SteadyState"

\* The segments appended have the shape of the class.
SegmentsOfClass(class, line, segs) ==
    CASE class = "none" -> segs = <<>>
      [] class = "free_ride" -> Len(segs) = 1 /\ segs[1].type = "free_ride"
      [] class = "ramp" -> Len(segs) = 1 /\ segs[1].type = "ramp"
      [] class = "interval" ->
            /\ Len(segs) = 2 * re_repeat(line).g1
            /\ \A k \in 1..Len(segs) :
                  segs[k].type = (IF k % 2 = 1 THEN "interval_on"
                                               ELSE "interval_off")
      [] class = "steady" -> Len(segs) = 1 /\ segs[1].type = "steady"

\* C3: both classifiers apply the same first-match-wins decision order to
\* every line; a line with a well-formed ramp and a repeat pattern is a
\* ramp for both.  (Stated for the lines that are not malformed ramps,
\* which C2 is about.)
C3_SameDecisionOrder ==
    /\ (i > 0 /\ ~MalformedRamp(SerializedLine))
          => ElementsOfClass(DecisionOrder(SerializedLine),
                             SerializedLine, element)
    /\ (j > 0 /\ ~MalformedRamp(ParsedLine))
          => SegmentsOfClass(DecisionOrder(ParsedLine),
                             ParsedLine, LastSegments)

\* The chart renders the ramp without failing and with the steps of the
\* serializer: as many, at the same boundaries, with the same powers.
RampSteppingAgrees(segment) ==
    LET steps == Max2(1, segment.duration \div 15)
        rects == png_segment_rects(segment, 0)
    IN  /\ ~png_segment_raises(segment)
        /\ Len(rects) = steps
        /\ \A k \in 1..Len(rects) :
              LET zwo == zwo_ramp_power(segment.power_low, segment.power_high,
                                        steps, k - 1)
              IN  /\ rects[k].h_den # 0
                  /\ rects[k].h_num * zwo.den = zwo.num * rects[k].h_den
                  /\ rects[k].x_num * steps
                        = (k - 1) * segment.duration * rects[k].den
                  /\ rects[k].w_num * steps = segment.duration * rects[k].den

\* C4: for every ramp the stepping of generate_workout_png yields the steps
\* of process_workout_line, steps == 1 included, without failing.  (Stated
\* for the ramps the renderer steps through, those with two different
\* endpoints.)
C4_SameRampStepping ==
    \A k \in 1..Len(segments) :
        (/\ segments[k].type = "ramp"
         /\ segments[k].power_low # segments[k].power_high)
            => RampSteppingAgrees(segments[k])

\* The exact power of ramp step k (0-indexed) of steps, as num/den percent:
\* the mean of the endpoints for one step, else the linear interpolation.
StepPower(p_low, p_high, steps, k) ==
    IF steps = 1
    THEN [num |-> p_low + p_high, den |-> 2]
    ELSE [num |-> p_low * (steps - 1) + (p_high - p_low) * k,
          den |-> steps - 1]

Abs(x) == IF x < 0 THEN -x ELSE x

\* The elements are the steps of the ramp of the line, each with a power
\* that is off the exact step power by at most tolerance/2000 (Power is in
\* thousandths, the step power in percent).
RampElements(line, e, tolerance) ==
    LET D == DurationOf(line)
        p_low == re_from_power(line).g1
        p_high == re_to_power(line).g1
        steps == Max2(1, D \div 15)
    IN  /\ Len(e) = steps
        /\ \A k \in 1..Len(e) :
              LET exact == StepPower(p_low, p_high, steps, k - 1) IN
              /\ e[k].tag = "SteadyState"
              /\ 2 * Abs(e[k].Power * exact.den - 10 * exact.num)
                    <= tolerance * exact.den

\* C5 as stated: for a well-formed ramp line the serializer emits
\* max(1, floor(D / 15)) SteadyState elements and the power of element i is
\* exactly p_low + (p_high - p_low) * i / (steps - 1), or the mean of the
\* endpoints when steps == 1.
C5_ExactStepPowers ==
    (i > 0 /\ WellFormedRamp(SerializedLine))
        => RampElements(SerializedLine, element, 0)

\* C5 as amended: the serializer emits max(1, floor(D / 15)) SteadyState
\* elements; the power of element i is the interpolated power rounded to
\* three decimals; element 0 has exactly p_low and element steps-1 exactly
\* p_high when steps > 1, and the single element has exactly the mean of the
\* endpoints when steps == 1.
C5_RoundedStepPowers ==
    (i > 0 /\ WellFormedRamp(SerializedLine))
        => /\ RampElements(SerializedLine, element, 1)
           /\ LET p_low == re_from_power(SerializedLine).g1
                  p_high == re_to_power(SerializedLine).g1
              IN  IF Len(element) = 1
                  THEN 2 * element[1].Power = 10 * (p_low + p_high)
                  ELSE /\ element[1].Power = 10 * p_low
                       /\ element[Len(element)].Power = 10 * p_high

\* A well-formed ramp of 40 steps from 0.50 to 0.80 has been serialized,
\* with an interpolated power that is no whole thousandth.
C5_Witness ==
    /\ i > 0
    /\ WellFormedRamp(SerializedLine)
    /\ Len(element) = 40
    /\ element[1].Power = 500
    /\ element[40].Power = 800
    /\ element[2].Power = 508

\* A single-step ramp has been serialized.
C5_WitnessOneStep ==
    /\ i > 0
    /\ WellFormedRamp(SerializedLine)
    /\ Len(element) = 1

\* A repeating-interval line: duration, power, repeat pattern, no free ride,
\* no from/to.
RepeatLine(line) ==
    /\ HasDuration(line)
    /\ ~HasFreeRide(line)
    /\ re_power_ftp(line).found
    /\ ~HasFromTo(line)
    /\ HasRepeat(line)

\* C6: for a repeating-interval line with count N, duration D, power p_on
\* and optional cadence c, parse_workout_segments appends 2N segments on,
\* off, on, off, ...: on is (D, p_on, c), off is (D, 0.55, no cadence); the
\* serializer emits one IntervalsT with Repeat=N, OnDuration=OffDuration=D,
\* OnPower=p_on, OffPower=0.55 and Cadence=c when the line has a cadence.
C6_IntervalExpansion ==
    /\ (i > 0 /\ RepeatLine(SerializedLine)) =>
          LET line == SerializedLine IN
          element = <<[tag |-> "IntervalsT",
                       Repeat |-> re_repeat(line).g1,
                       Duration |-> DurationOf(line),
                       OffDuration |-> DurationOf(line),
                       Power |-> 10 * re_percentage(line).g1,
                       OffPower |-> 550,
                       Cadence |-> IF re_rpm(line).found
                                   THEN re_rpm(line).g1 ELSE None]>>
    /\ (j > 0 /\ RepeatLine(ParsedLine)) =>
          LET line == ParsedLine
              segs == LastSegments
          IN  /\ Len(segs) = 2 * re_repeat(line).g1
              /\ \A k \in 1..Len(segs) :
                    /\ segs[k].duration = DurationOf(line)
                    /\ IF k % 2 = 1
                       THEN /\ segs[k].type = "interval_on"
                            /\ segs[k].power = re_percentage(line).g1
                            /\ segs[k].cadence =
                                  (IF re_rpm(line).found
                                   THEN re_rpm(line).g1 ELSE None)
                       ELSE /\ segs[k].type = "interval_off"
                            /\ segs[k].power = 55
                            /\ segs[k].cadence = None

\* A steady line in the words of C7: a duration and an <integer>% token, no
\* free ride, not both from and to, no repeat pattern.
SteadyLine(line) ==
    /\ HasDuration(line)
    /\ re_percentage(line).found
    /\ ~HasFreeRide(line)
    /\ ~HasFromTo(line)
    /\ ~HasRepeat(line)

\* C7: a steady line yields exactly one steady output in the training file
\* and in the visualization model, with the matched duration, the power of
\* the first <integer>% of the line and the cadence of the line, whether or
\* not FTP follows the percentage; the percentage used is the token that
\* admitted the line.
C7_SteadyLine ==
    /\ (i > 0 /\ SteadyLine(SerializedLine)) =>
          LET line == SerializedLine IN
          /\ Len(element) = 1
          /\ element[1].tag = "SteadyState"
          /\ element[1].Duration = DurationOf(line)
          /\ element[1].Power = 10 * re_percentage(line).g1
          /\ element[1].Cadence = (IF re_rpm(line).found
                                   THEN re_rpm(line).g1 ELSE None)
          /\ re_power_ftp(line).found
                => re_power_ftp(line).start = re_percentage(line).start
    /\ (j > 0 /\ SteadyLine(ParsedLine)) =>
          LET line == ParsedLine IN
          /\ Len(LastSegments) = 1
          /\ LastSegments[1].type = "steady"
          /\ LastSegments[1].duration = DurationOf(line)
          /\ LastSegments[1].power = re_percentage(line).g1
          /\ LastSegments[1].cadence = (IF re_rpm(line).found
                                        THEN re_rpm(line).g1 ELSE None)
          /\ re_power_ftp(line).found
                => re_power_ftp(line).start = re_percentage(line).start

\* The message has been printed.
Printed(text, file) == \E k \in 1..Len(stdout) : stdout[k] = Msg(text, file)

\* How often the warning of line 286 has been printed for the file.
WarningsFor(file) ==
    Cardinality({k \in 1..Len(stdout) : stdout[k] = Msg("Warning", file)})

\* C8: a failure in building the visualization model or rendering the chart
\* never aborts the conversion: the training file is completely written
\* before visualization starts, the failure is reported once as a warning,
\* and the call returns the training-file path with an absent chart path
\* instead of raising.
C8_VisualizationFailureContained ==
    /\ pc = "parse" =>
          /\ i = Len(lines)
          /\ zwo_dir[txt_file] = [written |-> TRUE,
                                  body |-> Flatten(zwo_content)]
    /\ pc = "raised" => (j = 0 /\ segments = <<>>)
    /\ (pc = "returned" /\ png_raises(segments)) => result.png_file = None
    /\ (pc = "returned" /\ result.png_file = None) =>
          /\ result.output_file = txt_file
          /\ zwo_dir[txt_file].written
          /\ ~png_dir[txt_file].written
          /\ WarningsFor(txt_file) = 1
    /\ (pc = "returned" /\ result.png_file # None) =>
          WarningsFor(txt_file) = 0

\* convert_txt_to_zwo has returned from a chart that raised on a ramp.
C8_Witness ==
    /\ pc = "returned"
    /\ png_raises(segments)
    /\ result = [output_file |-> txt_file, png_file |-> None]
    /\ zwo_dir[txt_file].written
    /\ WarningsFor(txt_file) = 1

RECURSIVE ZwoBodyOf(_)
\* The elements of a file made of the lines ls alone.
ZwoBodyOf(ls) ==
    IF ls = <<>> THEN <<>>
    ELSE ZwoBodyOf(SubSeq(ls, 1, Len(ls) - 1))
            \o process_workout_line(ls[Len(ls)])

\* C9: in batch mode every queued file is attempted whatever fails; a file
\* whose conversion failed stays in the queue directory; a file is moved to
\* the archive directory only after its conversion returned; a failure of
\* one file neither stops the loop nor changes the outcome of another.
C9_QueueIsolation ==
    arg = "none" =>
        /\ pc = "exit" =>
              \A f \in queue_dir \cup txt_dir : Printed("Processing", f)
        /\ \A f \in FileNames : Printed("Error", f) => f \in queue_dir
        /\ \A f \in txt_dir :
              /\ f \notin queue_dir
              /\ Printed("Created", f)
              /\ zwo_dir[f].written
        /\ \A f \in FileNames :
              zwo_dir[f].written => zwo_dir[f].body = ZwoBodyOf(files[f])

\* The batch has ended; one file failed and stayed, and a file taken after
\* it was converted and moved.
C9_Witness ==
    /\ arg = "none"
    /\ pc = "exit"
    /\ \E f \in queue_dir, g \in txt_dir :
          \E a, b \in 1..Len(stdout) :
              /\ a < b
              /\ stdout[a] = Msg("Error", f)
              /\ stdout[b] = Msg("Processing", g)

\* a is b with the first letter of some of its keywords from / to in
\* upper case.
KeywordCaseVariant(a, b) ==
    /\ Len(a) = Len(b)
    /\ a # b
    /\ \A k \in 1..Len(a) :
          a[k] # b[k] =>
              /\ LowerChar(a[k]) = b[k]
              /\ HasAt(b, k, c_from) \/ HasAt(b, k, c_to)

\* C10: from and to are matched case-insensitively: "10min From 50% To 80%
\* FTP" is a ramp from 0.50 to 0.80 for process_workout_line and for
\* parse_workout_segments, exactly as the line in lower case.
C10_KeywordsCaseInsensitive ==
    /\ i > 0 =>
          /\ \A b \in LineSet :
                KeywordCaseVariant(SerializedLine, b)
                    => element = process_workout_line(b)
          /\ SerializedLine = L_ramp_caps =>
                /\ Len(element) = 40
                /\ element[1].Power = 500
                /\ element[40].Power = 800
    /\ j > 0 =>
          /\ \A b \in LineSet :
                KeywordCaseVariant(ParsedLine, b)
                    => LastSegments = line_segments(b)
          /\ ParsedLine = L_ramp_caps =>
                LastSegments = <<Segment("ramp", 600, None, 50, 80, None)>>

\* ------------------------------------------------------------------------
\* Zone classification: single-file mode on a one-line steady workout of
\* every whole percentage
\* ------------------------------------------------------------------------
\* Highest percentage of the steady line.
MaxPower == 250

RECURSIVE DecimalChars(_)
\* The decimal numeral of n >= 0.
DecimalChars(n) ==
    IF n < 10 THEN <<DigitChars[n + 1]>>
    ELSE DecimalChars(n \div 10) \o <<DigitChars[(n % 10) + 1]>>

\* "1min @ <p>% FTP"
SteadyLineAt(p) ==
    <<"1", "m", "i", "n", " ", "@", " ">> \o DecimalChars(p)
        \o <<"%", " ", "F", "T", "P">>

InitZones ==
    /\ arg = "txt"
    /\ \E p \in 0..MaxPower :
          files = [f \in FileNames |->
                      IF f = 1 THEN <<SteadyLineAt(p)>> ELSE <<>>]
    /\ queue_dir = {1}
    /\ InitCommon

NextZones ==
    \/ SingleStart
    \/ SingleReturned
    \/ SingleFailed
    \/ ConvertOpen
    \/ ConvertProcessLine
    \/ ConvertWrite
    \/ ConvertParseLine
    \/ ConvertRenderOk
    \/ ConvertRenderFails

SpecZones == InitZones /\ [][NextZones]_vars

\* The colour of the six ranges and the fallback as the zone table states
\* them, for the power num/den percent.
ClaimedColor(num, den) ==
    IF num < 55 * den THEN "#4A90E2"
    ELSE IF num < 75 * den THEN "#7ED321"
    ELSE IF num < 90 * den THEN "#F5A623"
    ELSE IF num < 105 * den THEN "#D0021B"
    ELSE IF num < 120 * den THEN "#9013FE"
    ELSE IF num < 200 * den THEN "#BD10E0"
    ELSE "#50E3C2"

\* The zones of POWER_ZONES whose range holds the power num/den percent.
MatchingZones(num, den) ==
    {z \in 1..Len(POWER_ZONES) :
        /\ POWER_ZONES[z].min_power * den <= num
        /\ num < POWER_ZONES[z].max_power * den}

\* The rectangles of the charts written that get_power_color coloured.
ColouredRects ==
    {r \in UNION {{png_dir[f].body[k] : k \in 1..Len(png_dir[f].body)} :
                     f \in FileNames} :
        r.facecolor # "lightgray"}

\* C11: get_power_color is total on the powers >= 0 over the six half-open
\* ranges [0,0.55), [0.55,0.75), [0.75,0.90), [0.90,1.05), [1.05,1.20),
\* [1.20,2.0): a power at a boundary maps to the higher zone, exactly one
\* zone matches every power below 2.0, and every power >= 2.0 maps to the
\* fallback colour.
C11_ZoneClassification ==
    \A r \in ColouredRects :
        /\ r.h_den > 0
        /\ r.h_num >= 0
        /\ r.facecolor = ClaimedColor(r.h_num, r.h_den)
        /\ Cardinality(MatchingZones(r.h_num, r.h_den))
              = (IF r.h_num < 200 * r.h_den THEN 1 ELSE 0)

\* A chart holds a rectangle at the boundary 1.05, coloured as VO2Max.
C11_Witness ==
    \E r \in ColouredRects :
        r.h_num = 105 * r.h_den /\ r.facecolor = "#9013FE"

\* A chart holds a rectangle at 2.0 or above, in the fallback colour.
C11_WitnessFallback ==
    \E r \in ColouredRects :
        r.h_num >= 200 * r.h_den /\ r.facecolor = "#50E3C2"

RECURSIVE SumDurations(_)
\* The sum of the Duration attributes of the elements e.
SumDurations(e) ==
    IF e = <<>> THEN 0
    ELSE SumDurations(SubSeq(e, 1, Len(e) - 1)) + e[Len(e)].Duration

\* C12: for a well-formed ramp of duration D with steps = max(1, floor(D /
\* 15)), every SteadyState element the serializer emits has Duration =
\* floor(D / steps); the durations sum to steps * floor(D / steps), which is
\* at most D, short of D by less than steps, and equal to D exactly when
\* steps divides D; the visualization model keeps the full duration D for
\* the same ramp.
C12_RampStepDurations ==
    /\ (i > 0 /\ WellFormedRamp(SerializedLine)) =>
          LET D == DurationOf(SerializedLine)
              steps == Max2(1, D \div 15)
              total == SumDurations(element)
          IN  /\ Len(element) = steps
              /\ \A k \in 1..Len(element) :
                    /\ element[k].tag = "SteadyState"
                    /\ element[k].Duration = D \div steps
              /\ total = steps * (D \div steps)
              /\ total <= D
              /\ D - total < steps
              /\ (total = D) <=> (D % steps = 0)
    /\ (j > 0 /\ WellFormedRamp(ParsedLine)) =>
          /\ Len(LastSegments) = 1
          /\ LastSegments[1].type = "ramp"
          /\ LastSegments[1].duration = DurationOf(ParsedLine)

====
